---- MODULE Spec2Model ----
(***************************************************************************)
(* Event persistence layer of TimeWise (src/src/lib/actions.ts): the       *)
(* server actions createCalendarEvent, updateCalendarEvent,                *)
(* deleteCalendarEvent and getUserEvents over the Firestore "events"       *)
(* collection, with the timestamp normalizer convertTimestampsToDates.     *)
(***************************************************************************)
EXTENDS Integers, Sequences, FiniteSets, TLC

(***************************************************************************)
(* Bounds of the model.                                                    *)
(***************************************************************************)
\* number of document ids addDoc may assign in one behaviour
MaxDocs == 1
\* number of times the server clock advances in one behaviour
MaxClock == 1
\* number of documents the collection holds at the start in SpecList
MaxSeed == 2

(***************************************************************************)
(* JavaScript values that are neither strings nor numbers of the model.    *)
(***************************************************************************)
Undefined == [t |-> "undefined"]
InvalidDate == [valid |-> FALSE]
ValidDate(ms) == [valid |-> TRUE, ms |-> ms]

\* the event-type keys of EVENT_TYPES
EVENT_TYPES == {"sick_day", "child_sick_day", "vacation", "pto", "away",
                "leaving_early", "arriving_late", "reserve_duty"}

(***************************************************************************)
(* new Date(string): the strings of the model and the instant (ms since    *)
(* the epoch) each parses to; every other string is an Invalid Date.       *)
(***************************************************************************)
DateStrings == {"1970-01-01T00:00:01.000Z", "1970-01-01T00:00:02.000Z"}
ParseTable ==
  [s \in DateStrings |->
     IF s = "1970-01-01T00:00:01.000Z" THEN 1000 ELSE 2000]
NewDateFromString(s) ==
  IF s \in DateStrings THEN ValidDate(ParseTable[s]) ELSE InvalidDate

(***************************************************************************)
(* Firestore field values: a native Timestamp, a string, a map, a number,  *)
(* null.  A Timestamp made by Timestamp.fromDate has millisecond           *)
(* precision, so the model keeps its milliseconds.                         *)
(***************************************************************************)
Ts(ms) == [t |-> "timestamp", ms |-> ms]
Str(s) == [t |-> "string", v |-> s]
TsMap(sec, nanos) == [t |-> "map", seconds |-> sec, nanoseconds |-> nanos]
Num(n) == [t |-> "number", v |-> n]
Null == [t |-> "null"]
JsonArray(elems) == [t |-> "array", elems |-> elems]

\* a Timestamp built from the seconds of the date where its milliseconds
\* are expected
TimestampFromDate_Seconds(d) == Ts(d.ms \div 1000)
\* Timestamp.fromDate(date)
TimestampFromDate(d) == Ts(d.ms)
TimestampToDate(ts) == ValidDate(ts.ms)

\* new Timestamp(seconds, nanoseconds) throws on nanoseconds outside
\* [0, 1e9) (and on seconds outside years 1..9999, which no seconds value of
\* the model reaches)
TimestampCtorThrows(sec, nanos) == nanos < 0 \/ nanos >= 1000000000
\* new Timestamp(sec, nanos).toDate(): seconds * 1000 + nanoseconds / 1e6,
\* the fraction of a millisecond dropped by the Date constructor
TimestampCtorToDate(sec, nanos) ==
  ValidDate(sec * 1000 + (nanos \div 1000000))

(***************************************************************************)
(* Documents are functions from field names to values; a field a document  *)
(* lacks reads as undefined.                                               *)
(***************************************************************************)
Has(doc, k) == k \in DOMAIN doc
Get(doc, k) == IF k \in DOMAIN doc THEN doc[k] ELSE Undefined
\* { ...base, ...over }: the fields of over win
Spread(base, over) ==
  [k \in (DOMAIN base) \cup (DOMAIN over) |->
     IF k \in DOMAIN over THEN over[k] ELSE base[k]]
\* the object without the fields in ks
Omit(obj, ks) == [k \in (DOMAIN obj) \ ks |-> obj[k]]
\* the object restricted to the fields in ks
Pick(obj, ks) == [k \in (DOMAIN obj) \cap ks |-> obj[k]]

(***************************************************************************)
(* convertTimestampsToDates and its inner convertField.                    *)
(***************************************************************************)
Thrown == [threw |-> TRUE]
NoEvent == [none |-> TRUE]

\* convertField: first match wins; Thrown when the Timestamp constructor
\* rejects the seconds/nanoseconds of a Timestamp-like map
convertField(fieldValue) ==
  IF fieldValue.t = "timestamp" THEN TimestampToDate(fieldValue)
  ELSE IF fieldValue.t = "string" THEN NewDateFromString(fieldValue.v)
  ELSE IF fieldValue.t = "map" THEN
    IF TimestampCtorThrows(fieldValue.seconds, fieldValue.nanoseconds)
    THEN Thrown
    ELSE TimestampCtorToDate(fieldValue.seconds, fieldValue.nanoseconds)
  ELSE InvalidDate

\* new Date() inside the server action, at server-action time now
NewDateNow(now) == ValidDate(now)

\* the CalendarEvent, NoEvent for the null of the critical check, or Thrown
convertTimestampsToDates(eventData, docId, now) ==
  LET startDate == convertField(Get(eventData, "startDate"))
      endDate == convertField(Get(eventData, "endDate"))
      createdAt == convertField(Get(eventData, "createdAt"))
      updatedAt == convertField(Get(eventData, "updatedAt"))
  IN IF startDate = Thrown \/ endDate = Thrown THEN Thrown
     ELSE IF ~startDate.valid \/ ~endDate.valid THEN NoEvent
     ELSE IF createdAt = Thrown \/ updatedAt = Thrown THEN Thrown
     ELSE [id |-> docId,
           userId |-> Get(eventData, "userId"),
           title |-> Get(eventData, "title"),
           eventType |-> Get(eventData, "eventType"),
           additionalText |-> Get(eventData, "additionalText"),
           isFullDay |-> Get(eventData, "isFullDay"),
           recipients |-> Get(eventData, "recipients"),
           startDate |-> startDate,
           endDate |-> endDate,
           createdAt |-> IF ~createdAt.valid THEN NewDateNow(now) ELSE createdAt,
           updatedAt |-> IF ~updatedAt.valid THEN NewDateNow(now) ELSE updatedAt]

(***************************************************************************)
(* The state.                                                              *)
(***************************************************************************)
VARIABLES
  store,     \* the "events" collection: document id -> document or NoDoc
  assigned,  \* the ids addDoc has assigned or the collection started with
  clock,     \* how often time has advanced
  last,      \* the last call of a server action: its arguments and outcome
  mailingLists,  \* the in-memory array of mailing lists
  calls,     \* the calls clients have sent to the server actions, in the
             \* order they were started
  view       \* the state of EventListClientWrapper: events and isLoading
vars == <<store, assigned, clock, last, mailingLists, calls, view>>
\* the client side, which the server actions do not touch
client == <<calls, view>>

\* useState(null) and useState(true)
NotLoaded == [loaded |-> FALSE]
Loaded(list) == [loaded |-> TRUE, list |-> list]
InitialView == [events |-> NotLoaded, isLoading |-> TRUE]

\* MAILING_LISTS, the lists the in-memory array starts with
MAILING_LISTS ==
  <<[id |-> "managers", name |-> "Managers",
     emails |-> <<"manager1@example.com", "manager2@example.com">>],
    [id |-> "team_alpha", name |-> "Team Alpha",
     emails |-> <<"alpha_lead@example.com", "memberA@example.com">>],
    [id |-> "hr_department", name |-> "HR Department",
     emails |-> <<"hr@example.com">>]>>

NoDoc == [absent |-> TRUE]
\* the auto-ids of the model, in the order Firestore compares them
AllIds == <<"d1", "d2", "d3", "d4", "d5", "d6">>
IdRank(id) == CHOOSE i \in 1..Len(AllIds) : AllIds[i] = id
DocIds == {AllIds[i] : i \in 1..(MaxDocs + 1)}
\* the ids addDoc draws from; the last of DocIds never names a document
AutoIds == {AllIds[i] : i \in 1..MaxDocs}
SeedIds == {AllIds[i] : i \in 1..MaxSeed}
Existing(st) == {id \in DOMAIN st : st[id] # NoDoc}
\* the current instant in milliseconds
NowMs(c) == 3000 + 1000 * c

Users == {"u1", "u2"}

(***************************************************************************)
(* The order of a Firestore query: values of different types order by type *)
(* (null < boolean < number < timestamp < string < map), timestamps        *)
(* chronologically, strings by their bytes, maps by their sorted keys      *)
(* ("nanoseconds" before "seconds") and then the values.                   *)
(***************************************************************************)
TypeRank(v) ==
  CASE v.t = "null" -> 0
    [] v.t = "number" -> 2
    [] v.t = "timestamp" -> 3
    [] v.t = "string" -> 4
    [] v.t = "map" -> 9
\* the stored strings of the model in byte order
StoredStrings ==
  <<"1970-01-01T00:00:01.000Z", "1970-01-01T00:00:02.000Z", "not a date">>
StrRank(str) == CHOOSE i \in 1..Len(StoredStrings) : StoredStrings[i] = str
FsLess(a, b) ==
  IF TypeRank(a) # TypeRank(b) THEN TypeRank(a) < TypeRank(b)
  ELSE CASE a.t = "null" -> FALSE
         [] a.t = "number" -> a.v < b.v
         [] a.t = "timestamp" -> a.ms < b.ms
         [] a.t = "string" -> StrRank(a.v) < StrRank(b.v)
         [] a.t = "map" ->
              \/ a.nanoseconds < b.nanoseconds
              \/ a.nanoseconds = b.nanoseconds /\ a.seconds < b.seconds

\* orderBy("startDate", "desc"): ties fall back to the document id, in the
\* same direction
OrderedBefore(st, i, j) ==
  \/ FsLess(st[j].startDate, st[i].startDate)
  \/ /\ ~FsLess(st[i].startDate, st[j].startDate)
     /\ IdRank(j) < IdRank(i)

RECURSIVE OrderDesc(_, _)
OrderDesc(st, ids) ==
  IF ids = {} THEN <<>>
  ELSE LET first == CHOOSE i \in ids :
                      \A j \in ids \ {i} : OrderedBefore(st, i, j)
       IN <<first>> \o OrderDesc(st, ids \ {first})

\* query(eventsCol, where("userId", "==", userId), orderBy("startDate",
\* "desc")): the ids of the matching documents in result order; a document
\* without the orderBy field is not in the result
QueryByUser(st, userId) ==
  OrderDesc(st, {id \in Existing(st) :
                   /\ Get(st[id], "userId") = userId
                   /\ Has(st[id], "startDate")})

(***************************************************************************)
(* getUserEvents                                                           *)
(***************************************************************************)
\* the user ids a caller may pass: strings, undefined, a number
Whitespace == {" "}
\* the strings of the model with white space around their text, and the text
Padded ==
  [str \in {" bad", " also-bad", " b@x.com"} |->
     CASE str = " bad" -> "bad"
       [] str = " also-bad" -> "also-bad"
       [] str = " b@x.com" -> "b@x.com"]
\* String.prototype.trim
Trim(str) ==
  IF str \in Whitespace THEN ""
  ELSE IF str \in DOMAIN Padded THEN Padded[str] ELSE str
UserIdArgs == {Str(u) : u \in Users} \cup {Str(""), Str(" "), Undefined, Num(7)}
\* the guard without its trim: a whitespace-only id goes on to the query
InvalidUserId_NoTrim(userId) ==
  \/ userId.t = "undefined"
  \/ userId.t = "string" /\ userId.v = ""
  \/ userId.t # "string"
\* !userId || typeof userId !== 'string' || userId.trim() === ""
InvalidUserId(userId) ==
  \/ userId.t = "undefined"
  \/ userId.t = "string" /\ userId.v = ""
  \/ userId.t # "string"
  \/ Trim(userId.v) = ""

\* what the store answers to getDocs
QueryOutcomes == {"ok", "permission-denied", "failed-precondition"}

\* how a call ends: it returns a value or raises to its caller
Returns(v) == [threw |-> FALSE, value |-> v]
Raises == [threw |-> TRUE]

RECURSIVE ConvertAll(_, _, _)
\* the forEach over the snapshot: it returns the converted events pushed, or
\* raises as soon as one conversion throws
ConvertAll(st, ids, now) ==
  IF ids = <<>> THEN Returns(<<>>)
  ELSE LET convertedEvent == convertTimestampsToDates(st[Head(ids)], Head(ids), now)
           rest == ConvertAll(st, Tail(ids), now)
       IN IF convertedEvent = Thrown \/ rest.threw THEN Raises
          ELSE IF convertedEvent = NoEvent THEN rest
          ELSE Returns(<<convertedEvent>> \o rest.value)

\* the body of the try block
getUserEventsTry(st, userId, outcome, now) ==
  IF outcome # "ok" THEN Raises
  ELSE ConvertAll(st, QueryByUser(st, userId), now)

\* a catch block that lets the error through
getUserEventsCatch_Rethrow(res) == res
\* the catch block returns the empty list
getUserEventsCatch(res) == IF res.threw THEN Returns(<<>>) ELSE res

getUserEvents(userId, outcome) ==
  /\ last' = IF InvalidUserId(userId)
             THEN [op |-> "list", userId |-> userId, queried |-> FALSE,
                   outcome |-> "none", res |-> Returns(<<>>)]
             ELSE [op |-> "list", userId |-> userId, queried |-> TRUE,
                   outcome |-> outcome,
                   res |-> getUserEventsCatch(
                     getUserEventsTry(store, userId, outcome, NowMs(clock)))]
  /\ UNCHANGED <<store, assigned, clock, mailingLists>>

(***************************************************************************)
(* The documents a collection may hold before the server actions run:     *)
(* written by this code (native timestamps) or by earlier versions and     *)
(* other writers (strings, seconds/nanoseconds maps, corrupt values).      *)
(***************************************************************************)
SeedDoc(u, start, end, created) ==
  [userId |-> Str(u), title |-> "Trip", eventType |-> "vacation",
   startDate |-> start, endDate |-> end, isFullDay |-> TRUE,
   recipients |-> JsonArray(<<"managers">>), createdAt |-> created,
   updatedAt |-> created]

SeedStarts ==
  {Ts(1000), Ts(2000), Str("1970-01-01T00:00:01.000Z"), Str("not a date"),
   TsMap(1, 500000000), TsMap(0, -1), Num(5), Null}

SeedDocs ==
  {SeedDoc("u1", sd, Ts(2000), Ts(1000)) : sd \in SeedStarts}
  \cup {Omit(SeedDoc("u1", Null, Ts(2000), Ts(1000)), {"startDate"}),
        SeedDoc("u1", Ts(1000), Str("not a date"), Ts(1000)),
        SeedDoc("u1", Ts(1000), TsMap(2, 1000000000), Ts(1000)),
        Omit(SeedDoc("u1", Ts(2000), Ts(2000), Ts(1000)), {"createdAt"}),
        SeedDoc("u1", Ts(1000), Ts(2000), Null),
        SeedDoc("u1", Ts(2000), Ts(2000), Str("not a date")),
        SeedDoc("u1", Ts(1000), Ts(2000), TsMap(0, -1)),
        SeedDoc("u2", Ts(1000), Ts(2000), Ts(1000)),
        SeedDoc("u2", Str("not a date"), Ts(2000), Ts(1000))}

NoCall == [op |-> "none"]

InitList ==
  /\ store \in [SeedIds -> SeedDocs \cup {NoDoc}]
  /\ assigned = SeedIds
  /\ clock = 0
  /\ last = NoCall
  /\ mailingLists = MAILING_LISTS
  /\ calls = <<>>
  /\ view = InitialView

NextList ==
  \E userId \in UserIdArgs, outcome \in QueryOutcomes :
    getUserEvents(userId, outcome) /\ UNCHANGED client

SpecList == InitList /\ [][NextList]_vars

(***************************************************************************)
(* Form submissions: FormData as a function from the field names it has    *)
(* to their string values.                                                 *)
(***************************************************************************)
BaseForm(u, sd, ed) ==
  [title |-> "Trip", eventType |-> "vacation", startDate |-> sd,
   endDate |-> ed, isFullDay |-> "true", recipients |-> "[\"managers\"]",
   userId |-> u]
TheBase == BaseForm("u1", "1970-01-01T00:00:01.000Z", "1970-01-01T00:00:02.000Z")

\* the well-formed submissions: endDate after, equal to and before startDate
DatePairs ==
  {<<"1970-01-01T00:00:01.000Z", "1970-01-01T00:00:02.000Z">>,
   <<"1970-01-01T00:00:01.000Z", "1970-01-01T00:00:01.000Z">>,
   <<"1970-01-01T00:00:02.000Z", "1970-01-01T00:00:01.000Z">>}
PlainForms == {BaseForm(u, dp[1], dp[2]) : u \in Users, dp \in DatePairs}
\* submissions that differ from a well-formed one in one field
OddForms ==
  {Spread(TheBase, [title |-> ""]),
   Omit(TheBase, {"title"}),
   Spread(TheBase, [eventType |-> "holiday"]),
   Spread(TheBase, [startDate |-> "not a date"]),
   Omit(TheBase, {"endDate"}),
   Spread(TheBase, [isFullDay |-> "false"]),
   Spread(TheBase, [recipients |-> "[]"]),
   Spread(TheBase, [recipients |-> "\"managers\""]),
   Spread(TheBase, [recipients |-> "oops"]),
   Spread(TheBase, [recipients |-> "[\"ghost\"]"]),
   Omit(TheBase, {"recipients"}),
   Spread(TheBase, [userId |-> ""]),
   Omit(TheBase, {"userId"}),
   Spread(TheBase, [additionalText |-> "note"]),
   Spread(TheBase, [createdAt |-> "1970-01-01T00:00:01.000Z"])}
CreateForms == PlainForms \cup OddForms
\* the id field of an update: a document id, the empty string, or none
UpdateForms ==
  {Spread(f, [id |-> i]) : f \in PlainForms, i \in DocIds}
  \cup {Spread(f, [id |-> AllIds[1]]) : f \in OddForms}
  \cup {Spread(TheBase, [id |-> ""]), TheBase}

(***************************************************************************)
(* JSON.parse on the recipients strings of the model.                      *)
(***************************************************************************)
JSONParse(text) ==
  CASE text = "[\"managers\"]" -> Returns(JsonArray(<<"managers">>))
    [] text = "[\"ghost\"]" -> Returns(JsonArray(<<"ghost">>))
    [] text = "[]" -> Returns(JsonArray(<<>>))
    [] text = "\"managers\"" -> Returns(Str("managers"))
    [] OTHER -> Raises

\* new Date(data.startDate as string): an absent field is new Date(undefined)
NewDateFromField(data, k) ==
  IF Has(data, k) THEN NewDateFromString(data[k]) ELSE InvalidDate

\* the object literal parsedData of both actions (idKeys is {"id"} in the
\* update, where the id is copied too); Raises when JSON.parse throws
ParsedData(data, idKeys) ==
  LET recipients == IF Has(data, "recipients") THEN JSONParse(data.recipients)
                    ELSE Raises
      computed == {"startDate", "endDate", "isFullDay", "recipients", "userId"}
                    \cup idKeys
  IN IF recipients.threw THEN Raises
     ELSE Returns(
       [k \in (DOMAIN data) \cup computed |->
          CASE k = "startDate" -> NewDateFromField(data, "startDate")
            [] k = "endDate" -> NewDateFromField(data, "endDate")
            [] k = "isFullDay" -> (Has(data, "isFullDay") /\ data.isFullDay = "true")
            [] k = "recipients" -> recipients.value
            [] k = "userId" -> IF Has(data, "userId") THEN Str(data.userId) ELSE Undefined
            [] k = "id" -> IF Has(data, "id") THEN Str(data.id) ELSE Undefined
            [] OTHER -> data[k]])

(***************************************************************************)
(* eventSchemaBase, createEventSchema, updateEventSchema                   *)
(***************************************************************************)
BaseKeys == {"title", "eventType", "startDate", "endDate", "isFullDay",
             "additionalText", "recipients", "userId"}
createEventSchema == BaseKeys
updateEventSchema == BaseKeys \cup {"id"}

\* the fields whose value the schema rejects (the keys of fieldErrors)
ZodErrors(schema, obj) ==
  {k \in schema :
     CASE k = "title" -> ~Has(obj, k) \/ obj[k] = ""
       [] k = "eventType" -> ~Has(obj, k) \/ obj[k] \notin EVENT_TYPES
       [] k = "startDate" -> ~obj[k].valid
       [] k = "endDate" -> ~obj[k].valid
       [] k = "isFullDay" -> FALSE
       [] k = "additionalText" -> FALSE
       [] k = "recipients" -> obj[k].t # "array" \/ Len(obj[k].elems) < 1
       [] k = "userId" -> obj[k].t # "string"
       [] k = "id" -> obj[k].t # "string"}

\* a schema made with passthrough(): unknown keys stay
ZodStrip_Passthrough(schema, obj) == obj
\* a z.object drops the keys its shape does not name
ZodStrip(schema, obj) == Pick(obj, schema)

\* schema.parse: the validated data, or the ZodError with its field errors
ZodParse(schema, obj) ==
  IF ZodErrors(schema, obj) # {}
  THEN [threw |-> TRUE, zod |-> TRUE, errors |-> ZodErrors(schema, obj)]
  ELSE Returns(ZodStrip(schema, obj))

(***************************************************************************)
(* The store's write primitives.  outcome is what the store answers: "ok", *)
(* or an error (permission denied, unavailable).                           *)
(***************************************************************************)
WriteOutcomes == {"ok", "permission-denied"}

\* doc(db, "events", id) throws on an empty id: no document has that path
DocRefThrows(id) == id = ""

\* addDoc: the collection with the new document under the id the store chose
AddDoc(st, id, data) == [st EXCEPT ![id] = data]
\* an update that behaves as setDoc with merge: it never fails with not-found
UpdateDocFails_Upsert(st, id) == id \notin DOMAIN st
\* updateDoc: fails with not-found when there is no document with the id,
\* else overwrites the fields of the payload and keeps the others
UpdateDocFails(st, id) == id \notin DOMAIN st \/ st[id] = NoDoc
\* a merge in which the stored value of a field wins over the payload's
UpdateDoc_StoredWins(st, id, payload) ==
  [st EXCEPT ![id] = Spread(payload, st[id])]
\* updateDoc writes the fields of the payload in one atomic write
UpdateDoc(st, id, payload) == [st EXCEPT ![id] = Spread(st[id], payload)]
\* a delete that fails with not-found on an absent document
DeleteDocFails_NotFound(st, id) == id \notin DOMAIN st \/ st[id] = NoDoc
\* deleteDoc: succeeds whether or not there is a document with the id
DeleteDocFails(st, id) == FALSE
DeleteDoc(st, id) == IF id \in DOMAIN st THEN [st EXCEPT ![id] = NoDoc] ELSE st

\* serverTimestamp(): the store's time when it commits the write
ServerTimestamp(c) == Ts(NowMs(c))

\* a field of the payload that is still a JavaScript string is stored as a
\* Firestore string (the schema's own fields are already in stored form)
ToFirestore(obj, stored) ==
  [k \in DOMAIN obj |->
     IF k \in BaseKeys \cup {"id"} \cup stored THEN obj[k] ELSE Str(obj[k])]

\* a catch block that handles the ZodError and lets every other error
\* through
WriteCatch_ZodOnly(res, generic) ==
  IF ~res.threw THEN res
  ELSE IF Has(res, "zod")
       THEN Returns([success |-> FALSE, message |-> "Validation failed",
                     errors |-> res.errors])
       ELSE res
\* the catch block of the three write actions
WriteCatch(res, generic) ==
  IF ~res.threw THEN res
  ELSE IF Has(res, "zod")
       THEN Returns([success |-> FALSE, message |-> "Validation failed",
                     errors |-> res.errors])
       ELSE Returns([success |-> FALSE, message |-> generic])

(***************************************************************************)
(* createCalendarEvent                                                     *)
(***************************************************************************)
\* the document handed to addDoc
eventToStore(validatedData, c) ==
  ToFirestore(
    Spread(validatedData,
           [startDate |-> TimestampFromDate(validatedData.startDate),
            endDate |-> TimestampFromDate(validatedData.endDate),
            createdAt |-> ServerTimestamp(c),
            updatedAt |-> ServerTimestamp(c)]),
    {"createdAt", "updatedAt"})

\* the milliseconds that may pass between two evaluations of new Date() in
\* one object literal
ClockLags == {0, 1}

\* a returned record that takes the id from the validated data, which has
\* none in a create
newEventForClient_IdFromData(validatedData, id, now, later) ==
  [id |-> IF Has(validatedData, "id") THEN validatedData.id.v ELSE "",
   userId |-> validatedData.userId,
   title |-> validatedData.title,
   eventType |-> validatedData.eventType,
   startDate |-> validatedData.startDate,
   endDate |-> validatedData.endDate,
   isFullDay |-> validatedData.isFullDay,
   additionalText |-> Get(validatedData, "additionalText"),
   recipients |-> validatedData.recipients,
   createdAt |-> NewDateNow(now),
   updatedAt |-> NewDateNow(later)]
\* createdAt and updatedAt are two evaluations of new Date(): the first at
\* now, the second at later
newEventForClient(validatedData, id, now, later) ==
  [id |-> id,
   userId |-> validatedData.userId,
   title |-> validatedData.title,
   eventType |-> validatedData.eventType,
   startDate |-> validatedData.startDate,
   endDate |-> validatedData.endDate,
   isFullDay |-> validatedData.isFullDay,
   additionalText |-> Get(validatedData, "additionalText"),
   recipients |-> validatedData.recipients,
   createdAt |-> NewDateNow(now),
   updatedAt |-> NewDateNow(later)]

\* revalidatePath in a finally block: called however the action ends
RevalidatePaths_Finally(committed, paths) == paths
\* the revalidatePath calls of a write action stand after the awaited store
\* write, inside the try: they run only when the write has committed
RevalidatePaths(committed, paths) == IF committed THEN paths ELSE {}

\* the calls a write action makes to a notification sender, in order:
\* between the store write and the return there is the console.log and
\* revalidatePath, and no call that sends or schedules a notification
NotificationCalls == <<>>

\* validation of a submission: Raises, a ZodError, or the validated data
Validate(schema, formData, idKeys) ==
  LET parsedData == ParsedData(formData, idKeys)
  IN IF parsedData.threw THEN Raises ELSE ZodParse(schema, parsedData.value)

\* a create in which a step after the awaited addDoc throws: the document is
\* written and the catch reports failure
createCalendarEvent_FailsAfterWrite(formData, newId, outcome, lag) ==
  LET validated == Validate(createEventSchema, formData, {})
      committed == ~validated.threw /\ outcome = "ok"
      try == IF validated.threw THEN validated
             ELSE IF outcome # "ok" THEN Raises
             ELSE Raises
  IN /\ newId \in AutoIds \ assigned
     /\ store' = IF committed
                 THEN AddDoc(store, newId, eventToStore(validated.value, clock))
                 ELSE store
     /\ assigned' = IF committed THEN assigned \cup {newId} ELSE assigned
     /\ last' = [op |-> "create", form |-> formData,
                 outcome |-> IF validated.threw THEN "none" ELSE outcome,
                 existed |-> FALSE,
                 revalidated |-> RevalidatePaths(committed,
                                   {"/calendar-overview", "/send-event"}),
                 notified |-> NotificationCalls,
                 res |-> WriteCatch(try, "Failed to create event. Please try again.")]
     /\ UNCHANGED <<clock, mailingLists>>

\* the whole body is one try; the catch is WriteCatch
createCalendarEvent(formData, newId, outcome, lag) ==
  LET validated == Validate(createEventSchema, formData, {})
      committed == ~validated.threw /\ outcome = "ok"
      try == IF validated.threw THEN validated
             ELSE IF outcome # "ok" THEN Raises
             ELSE Returns([success |-> TRUE,
                           message |-> "Event created successfully!",
                           event |-> newEventForClient(validated.value, newId,
                                                        NowMs(clock),
                                                        NowMs(clock) + lag)])
  IN /\ newId \in AutoIds \ assigned
     /\ store' = IF committed
                 THEN AddDoc(store, newId, eventToStore(validated.value, clock))
                 ELSE store
     /\ assigned' = IF committed THEN assigned \cup {newId} ELSE assigned
     /\ last' = [op |-> "create", form |-> formData,
                 outcome |-> IF validated.threw THEN "none" ELSE outcome,
                 existed |-> FALSE,
                 revalidated |-> RevalidatePaths(committed,
                                   {"/calendar-overview", "/send-event"}),
                 notified |-> NotificationCalls,
                 res |-> WriteCatch(try, "Failed to create event. Please try again.")]
     /\ UNCHANGED <<clock, mailingLists>>

(***************************************************************************)
(* updateCalendarEvent                                                     *)
(***************************************************************************)
\* eventToUpdate without its id
updatePayload(validatedData, c) ==
  Omit(ToFirestore(
         Spread(validatedData,
                [startDate |-> TimestampFromDate(validatedData.startDate),
                 endDate |-> TimestampFromDate(validatedData.endDate),
                 updatedAt |-> ServerTimestamp(c)]),
         {"updatedAt"}),
       {"id"})

updatedEventForClient(validatedData, now, later) ==
  Spread(validatedData,
         [createdAt |-> NewDateNow(now), updatedAt |-> NewDateNow(later)])

updateCalendarEvent(formData, outcome, lag) ==
  LET validated == Validate(updateEventSchema, formData, {"id"})
      id == validated.value.id.v
      storeThrows == DocRefThrows(id) \/ outcome # "ok" \/ UpdateDocFails(store, id)
      committed == ~validated.threw /\ ~storeThrows
      try == IF validated.threw THEN validated
             ELSE IF storeThrows THEN Raises
             ELSE Returns([success |-> TRUE,
                           message |-> "Event updated successfully!",
                           event |-> updatedEventForClient(validated.value,
                                                           NowMs(clock),
                                                           NowMs(clock) + lag)])
  IN /\ store' = IF committed
                 THEN UpdateDoc(store, id, updatePayload(validated.value, clock))
                 ELSE store
     /\ last' = [op |-> "update", form |-> formData,
                 outcome |-> IF validated.threw \/ DocRefThrows(id)
                             THEN "none" ELSE outcome,
                 existed |-> /\ Has(formData, "id")
                             /\ formData.id \in Existing(store),
                 revalidated |-> RevalidatePaths(committed, {"/calendar-overview"}),
                 notified |-> NotificationCalls,
                 res |-> WriteCatch(try, "Failed to update event. Please try again.")]
     /\ UNCHANGED <<assigned, clock, mailingLists>>

(***************************************************************************)
(* deleteCalendarEvent                                                     *)
(***************************************************************************)
\* a delete that goes to the store only for the owner of the document
deleteCalendarEvent_OwnerOnly(eventId, userId, outcome) ==
  LET notOwner == /\ eventId \in Existing(store)
                  /\ Get(store[eventId], "userId") # Str(userId)
      storeThrows == DocRefThrows(eventId) \/ outcome # "ok"
                       \/ DeleteDocFails(store, eventId) \/ notOwner
      try == IF storeThrows THEN Raises
             ELSE Returns([success |-> TRUE,
                           message |-> "Event deleted successfully!"])
  IN /\ store' = IF storeThrows THEN store ELSE DeleteDoc(store, eventId)
     /\ last' = [op |-> "delete", id |-> eventId, userId |-> userId,
                 outcome |-> IF DocRefThrows(eventId) THEN "none" ELSE outcome,
                 existed |-> eventId \in Existing(store),
                 owner |-> IF eventId \in Existing(store)
                           THEN Get(store[eventId], "userId") ELSE Undefined,
                 revalidated |-> RevalidatePaths(~storeThrows, {"/calendar-overview"}),
                 res |-> WriteCatch(try, "Failed to delete event. Please try again.")]
     /\ UNCHANGED <<assigned, clock, mailingLists>>

\* the userId argument is not used
deleteCalendarEvent(eventId, userId, outcome) ==
  LET storeThrows == DocRefThrows(eventId) \/ outcome # "ok"
                       \/ DeleteDocFails(store, eventId)
      try == IF storeThrows THEN Raises
             ELSE Returns([success |-> TRUE,
                           message |-> "Event deleted successfully!"])
  IN /\ store' = IF storeThrows THEN store ELSE DeleteDoc(store, eventId)
     /\ last' = [op |-> "delete", id |-> eventId, userId |-> userId,
                 outcome |-> IF DocRefThrows(eventId) THEN "none" ELSE outcome,
                 existed |-> eventId \in Existing(store),
                 owner |-> IF eventId \in Existing(store)
                           THEN Get(store[eventId], "userId") ELSE Undefined,
                 revalidated |-> RevalidatePaths(~storeThrows, {"/calendar-overview"}),
                 res |-> WriteCatch(try, "Failed to delete event. Please try again.")]
     /\ UNCHANGED <<assigned, clock, mailingLists>>

(***************************************************************************)
(* Time passes.                                                            *)
(***************************************************************************)
Tick ==
  /\ clock < MaxClock
  /\ clock' = clock + 1
  /\ UNCHANGED <<store, assigned, last, mailingLists>>

(***************************************************************************)
(* The server actions over a collection that starts empty.                 *)
(***************************************************************************)
Init ==
  /\ store = [id \in DocIds |-> NoDoc]
  /\ assigned = {}
  /\ clock = 0
  /\ last = NoCall
  /\ mailingLists = MAILING_LISTS
  /\ calls = <<>>
  /\ view = InitialView

Next ==
  \/ \E formData \in CreateForms, newId \in AutoIds, outcome \in WriteOutcomes,
        lag \in ClockLags :
       createCalendarEvent(formData, newId, outcome, lag) /\ UNCHANGED client
  \/ \E formData \in UpdateForms, outcome \in WriteOutcomes, lag \in ClockLags :
       updateCalendarEvent(formData, outcome, lag) /\ UNCHANGED client
  \/ \E eventId \in DocIds \cup {""}, userId \in Users, outcome \in WriteOutcomes :
       deleteCalendarEvent(eventId, userId, outcome) /\ UNCHANGED client
  \/ \E userId \in UserIdArgs, outcome \in QueryOutcomes :
       getUserEvents(userId, outcome) /\ UNCHANGED client
  \/ Tick /\ UNCHANGED client

Spec == Init /\ [][Next]_vars

(***************************************************************************)
(* The mailing lists: getMailingLists and saveMailingLists over the        *)
(* in-memory array.                                                        *)
(***************************************************************************)
\* number of lists saveMailingLists may add in one behaviour
MaxAdds == 2

\* the values of the newListEmails field, and what split(',') makes of each
CsvStrings ==
  {"", "a@x.com", "bad-email, also-bad", "a@x.com, bad, b@x.com",
   "b@x.com,a@x.com", " , "}
Split(raw) ==
  CASE raw = "" -> <<"">>
    [] raw = "a@x.com" -> <<"a@x.com">>
    [] raw = "bad-email, also-bad" -> <<"bad-email", " also-bad">>
    [] raw = "a@x.com, bad, b@x.com" -> <<"a@x.com", " bad", " b@x.com">>
    [] raw = "b@x.com,a@x.com" -> <<"b@x.com", "a@x.com">>
    [] raw = " , " -> <<" ", " ">>

\* z.string().email().safeParse(e).success on the strings of the model
IsEmail(e) == e \in {"a@x.com", "b@x.com"}

\* the filter applied to the untrimmed pieces
ValidEmails_NoTrim(raw) == SelectSeq(Split(raw), IsEmail)
\* newListEmailsRaw.split(',').map(e => e.trim()).filter(...)
ValidEmails(raw) ==
  SelectSeq([i \in 1..Len(Split(raw)) |-> Trim(Split(raw)[i])], IsEmail)

\* formData.get(name): the string of the field, or null
ListNames == {Str("Team X"), Str(""), Null}
ListEmails == {Str(raw) : raw \in CsvStrings} \cup {Null}
\* a test for null only: the empty string passes
Truthy_NotNull(v) == v.t = "string"
\* the truthiness of a formData.get result
Truthy(v) == v.t = "string" /\ v.v # ""

\* Math.random().toString(36).substring(2, 7): up to five base-36 digits
RandomSuffixes == {"i", "4fzyo"}
\* `ml_${Date.now()}_${suffix}`
NewListId(now, suffix) == "ml_" \o ToString(now) \o "_" \o suffix

\* a save that rebuilds the array from the initial lists and the new one
saveMailingListsTry_Reset(lists, newListName, newListEmailsRaw, now, suffix) ==
  IF Truthy(newListName) /\ Truthy(newListEmailsRaw)
  THEN LET emails == ValidEmails(newListEmailsRaw.v)
       IN IF Len(emails) > 0
          THEN Returns(Append(MAILING_LISTS, [id |-> NewListId(now, suffix),
                                              name |-> newListName.v,
                                              emails |-> emails]))
          ELSE [threw |-> TRUE,
                message |-> "Invalid email format in new list. All provided emails were invalid."]
  ELSE Returns(lists)
\* the try block up to the push (no await before it): the array afterwards,
\* or Raises for the Error thrown when no address is valid
saveMailingListsTry(lists, newListName, newListEmailsRaw, now, suffix) ==
  IF Truthy(newListName) /\ Truthy(newListEmailsRaw)
  THEN LET emails == ValidEmails(newListEmailsRaw.v)
       IN IF Len(emails) > 0
          THEN Returns(Append(lists, [id |-> NewListId(now, suffix),
                                      name |-> newListName.v,
                                      emails |-> emails]))
          ELSE [threw |-> TRUE,
                message |-> "Invalid email format in new list. All provided emails were invalid."]
  ELSE Returns(lists)

\* one call: calls overlap only in the one-second wait after the push, which
\* changes nothing, so the call is one step
saveMailingLists(newListName, newListEmailsRaw, suffix) ==
  LET try == saveMailingListsTry(mailingLists, newListName, newListEmailsRaw,
                                 NowMs(clock), suffix)
  IN /\ Len(mailingLists) < Len(MAILING_LISTS) + MaxAdds
     /\ mailingLists' = IF try.threw THEN mailingLists ELSE try.value
     /\ last' = [op |-> "save", newListName |-> newListName,
                 newListEmails |-> newListEmailsRaw,
                 revalidated |-> IF try.threw THEN {} ELSE {"/settings"},
                 res |-> IF try.threw
                         THEN Returns([success |-> FALSE,
                                       message |-> try.message])
                         ELSE Returns([success |-> TRUE,
                                       message |-> "Mailing list settings updated (in-memory)."])]
     /\ UNCHANGED <<store, assigned, clock>>

getMailingLists ==
  /\ last' = [op |-> "lists", res |-> Returns(mailingLists)]
  /\ UNCHANGED <<store, assigned, clock, mailingLists>>

InitMail ==
  /\ store = [id \in DocIds |-> NoDoc]
  /\ assigned = {}
  /\ clock = 0
  /\ last = NoCall
  /\ mailingLists = MAILING_LISTS
  /\ calls = <<>>
  /\ view = InitialView

NextMail ==
  \/ \E newListName \in ListNames, newListEmailsRaw \in ListEmails,
        suffix \in RandomSuffixes :
       saveMailingLists(newListName, newListEmailsRaw, suffix)
         /\ UNCHANGED client
  \/ getMailingLists /\ UNCHANGED client
  \/ Tick /\ UNCHANGED client

SpecMail == InitMail /\ [][NextMail]_vars

(***************************************************************************)
(* The calendar view: EventListClientWrapper and the handlers of EventList *)
(* for the logged-in user, next to the calls of other clients.  A call is  *)
(* sent, then served by its server action, then its response is delivered  *)
(* to the caller's continuation; the calls in flight are served and        *)
(* delivered in any order.                                                 *)
(***************************************************************************)
\* number of calls sent in one behaviour
MaxCalls == 4

\* the logged-in user of the view
ViewUser == "u1"
\* the response of a call that has none yet
Pending == [pending |-> TRUE]

\* the submissions of the edit dialog for the event on display
ViewForms ==
  {Spread(BaseForm(ViewUser, "1970-01-01T00:00:02.000Z",
                   "1970-01-01T00:00:02.000Z"),
          [id |-> AllIds[1]]),
   Spread(BaseForm(ViewUser, "1970-01-01T00:00:01.000Z",
                   "1970-01-01T00:00:01.000Z"),
          [id |-> AllIds[1], isFullDay |-> "false",
           recipients |-> "[\"ghost\"]"])}

\* own: the call comes from this view, else from another client
FetchCall == [kind |-> "fetch", own |-> TRUE, state |-> "sent", res |-> Pending]
UpdateCall(formData, own) ==
  [kind |-> "update", form |-> formData, own |-> own, state |-> "sent",
   res |-> Pending]
DeleteCall(eventId, own) ==
  [kind |-> "delete", id |-> eventId, own |-> own, state |-> "sent",
   res |-> Pending]

\* the wrapper renders EventList only when it is not loading and has events
EventListRendered == ~view.isLoading /\ view.events.loaded
\* the ids of the events on display
Displayed ==
  IF view.events.loaded
  THEN {view.events.list[i].id : i \in 1..Len(view.events.list)}
  ELSE {}
Completed(i) == [calls EXCEPT ![i] = [@ EXCEPT !.state = "done"]]
server == <<store, assigned, clock, last, mailingLists>>

\* fetchUserEvents up to its await, from the effect after mount or from
\* handleRefresh: setIsLoading(true), then the call of getUserEvents
fetchUserEvents ==
  /\ Len(calls) < MaxCalls
  /\ \/ view = InitialView /\ \A i \in 1..Len(calls) : calls[i].kind # "fetch"
     \/ EventListRendered
  /\ calls' = Append(calls, FetchCall)
  /\ view' = [view EXCEPT !.isLoading = TRUE]
  /\ UNCHANGED server

\* onUpdateSubmit up to its await of updateCalendarEvent
onUpdateSubmit(formData) ==
  /\ Len(calls) < MaxCalls
  /\ EventListRendered
  /\ formData.id \in Displayed
  /\ calls' = Append(calls, UpdateCall(formData, TRUE))
  /\ UNCHANGED <<view, server>>

\* handleDelete up to its await of deleteCalendarEvent
handleDelete(eventId) ==
  /\ Len(calls) < MaxCalls
  /\ EventListRendered
  /\ eventId \in Displayed
  /\ calls' = Append(calls, DeleteCall(eventId, TRUE))
  /\ UNCHANGED <<view, server>>

\* another client (another session of the user) sends an update or a delete
OtherClientCall(call) ==
  /\ Len(calls) < MaxCalls
  /\ calls' = Append(calls, call)
  /\ UNCHANGED <<view, server>>

\* the server runs the action of a call in flight; the response of another
\* client's call is of no concern to the view
ServeCall(i, outcome) ==
  /\ calls[i].state = "sent"
  /\ \/ calls[i].kind = "fetch" /\ getUserEvents(Str(ViewUser), outcome)
     \/ /\ calls[i].kind = "update"
        /\ updateCalendarEvent(calls[i].form, outcome, 0)
     \/ /\ calls[i].kind = "delete"
        /\ deleteCalendarEvent(calls[i].id, ViewUser, outcome)
  /\ calls' = [calls EXCEPT ![i] =
                 [@ EXCEPT !.state = IF calls[i].own THEN "served" ELSE "done",
                           !.res = last'.res]]
  /\ UNCHANGED view

\* the continuation after the await: of fetchUserEvents, setEvents and
\* setIsLoading(false); of onUpdateSubmit and handleDelete, onRefresh() when
\* the result is a success
DeliverCall(i) ==
  /\ calls[i].state = "served"
  /\ IF calls[i].kind = "fetch"
     THEN /\ view' = [events |-> Loaded(calls[i].res.value), isLoading |-> FALSE]
          /\ calls' = Completed(i)
     ELSE IF calls[i].res.value.success
          THEN /\ Len(calls) < MaxCalls
               /\ calls' = Append(Completed(i), FetchCall)
               /\ view' = [view EXCEPT !.isLoading = TRUE]
          ELSE /\ calls' = Completed(i)
               /\ UNCHANGED view
  /\ UNCHANGED server

\* the collection holds one event of the user, as createCalendarEvent wrote it
InitClient ==
  /\ store = [id \in DocIds |->
                IF id = AllIds[1]
                THEN eventToStore(Validate(createEventSchema, TheBase, {}).value, 0)
                ELSE NoDoc]
  /\ assigned = {AllIds[1]}
  /\ clock = 0
  /\ last = NoCall
  /\ mailingLists = MAILING_LISTS
  /\ calls = <<>>
  /\ view = InitialView

NextClient ==
  \/ fetchUserEvents
  \/ \E formData \in ViewForms : onUpdateSubmit(formData)
  \/ handleDelete(AllIds[1])
  \/ \E formData \in ViewForms : OtherClientCall(UpdateCall(formData, FALSE))
  \/ OtherClientCall(DeleteCall(AllIds[1], FALSE))
  \/ \E i \in 1..Len(calls), outcome \in WriteOutcomes : ServeCall(i, outcome)
  \/ \E i \in 1..Len(calls) : DeliverCall(i)

SpecClient == InitClient /\ [][NextClient]_vars

(***************************************************************************)
(* Properties.                                                             *)
(***************************************************************************)
IsWrite == last.op \in {"create", "update"}
Succeeded == ~last.res.threw /\ last.res.value.success
\* the ids of the records the last getUserEvents returned, in order
ReturnedIds == {last.res.value[i].id : i \in 1..Len(last.res.value)}
ListedOk == last.op = "list" /\ last.queried /\ last.outcome = "ok"
\* a stored value that normalizes to a valid instant
IsInstant(v) == convertField(v) # Thrown /\ convertField(v).valid
DatesValid(doc) ==
  IsInstant(Get(doc, "startDate")) /\ IsInstant(Get(doc, "endDate"))
OwnedBy(st, userId) == {id \in Existing(st) : Get(st[id], "userId") = userId}

\* the submission names two instants and the end is the earlier one
EndBeforeStart(formData) ==
  /\ NewDateFromField(formData, "startDate").valid
  /\ NewDateFromField(formData, "endDate").valid
  /\ NewDateFromField(formData, "endDate").ms
       < NewDateFromField(formData, "startDate").ms

\* C1: a create or update whose endDate is earlier than its startDate
\* returns success=false with an error on endDate, and every stored record
\* has endDate >= startDate.
C1_EndBeforeStartRejected ==
  /\ (IsWrite /\ EndBeforeStart(last.form)) =>
       /\ ~last.res.threw
       /\ ~last.res.value.success
       /\ Has(last.res.value, "errors")
       /\ "endDate" \in last.res.value.errors
  /\ \A id \in Existing(store) : store[id].endDate.ms >= store[id].startDate.ms

\* C2: after a successful query for u, a record of u whose startDate or
\* endDate does not normalize is not in the result, and every record of u
\* whose two dates are valid is.
C2_BadRecordDoesNotHideGood ==
  ListedOk =>
    \A id \in OwnedBy(store, last.userId) :
      DatesValid(store[id]) <=> id \in ReturnedIds

\* C3: getUserEvents with an empty, whitespace-only, undefined or non-string
\* userId returns the empty list and issues no query.
C3_InvalidUserIdNoQuery ==
  (last.op = "list" /\ last.userId \in {Str(""), Str(" "), Undefined, Num(7)}) =>
    /\ last.res = Returns(<<>>)
    /\ ~last.queried
C3_Witness ==
  /\ last.op = "list"
  /\ last.userId = Str(" ")
  /\ ~last.queried
  /\ last.res = Returns(<<>>)
  /\ Existing(store) # {}

\* C4: getUserEvents never raises, and returns the empty list when the
\* query fails.
C4_ListNeverRaises ==
  last.op = "list" =>
    /\ ~last.res.threw
    /\ (last.queried /\ last.outcome # "ok") => last.res.value = <<>>
C4_Witness ==
  /\ last.op = "list"
  /\ last.outcome = "permission-denied"
  /\ \E id \in OwnedBy(store, last.userId) : DatesValid(store[id])
  /\ last.res = Returns(<<>>)

\* C5: after a successful query for u the result holds exactly the records
\* stored with userId u whose dates normalize, and no record of another user.
C5_ExactlyOwnNormalizable ==
  ListedOk =>
    /\ ReturnedIds = {id \in OwnedBy(store, last.userId) : DatesValid(store[id])}
    /\ \A i \in 1..Len(last.res.value) : last.res.value[i].userId = last.userId

\* C6: the returned list is in descending order of the normalized startDate.
C6_SortedDescending ==
  last.op = "list" =>
    \A i \in 1..(Len(last.res.value) - 1) :
      last.res.value[i].startDate.ms >= last.res.value[i + 1].startDate.ms

\* C7 as stated: the second deleteEvent of an id, with no create in
\* between, ends in a not-found failure (and the first in success).
C7_SecondDeleteNotFound ==
  (last.op = "delete" /\ last.outcome = "ok" /\ last.id \in assigned) =>
    /\ ~last.res.threw
    /\ last.res.value.success = last.existed

\* C7 (amended): a deleteEvent the store accepts returns success whether
\* the document is still there (first call) or already deleted (second
\* call), leaves no document under the id, and no deleteEvent raises.
C7_DeleteTwiceBothSucceed ==
  last.op = "delete" =>
    /\ ~last.res.threw
    /\ (last.outcome = "ok" /\ last.id \in assigned) =>
         /\ last.res.value.success
         /\ store[last.id] = NoDoc
C7_Witness ==
  /\ last.op = "delete"
  /\ last.outcome = "ok"
  /\ last.id \in assigned
  /\ ~last.existed
  /\ Succeeded

\* C8: an updateEvent whose id names no stored document returns
\* success=false and leaves the collection as it was.
C8_UpdateMissingIdFails ==
  [][(/\ last'.op = "update"
      /\ Has(last'.form, "id")
      /\ last'.form.id \notin Existing(store))
     => /\ ~last'.res.threw
        /\ ~last'.res.value.success
        /\ store' = store]_vars
C8_Witness ==
  /\ last.op = "update"
  /\ Has(last.form, "id")
  /\ last.form.id \in DocIds
  /\ ~last.existed
  /\ last.outcome = "ok"
  /\ ~Has(last.res.value, "errors")
  /\ ~last.res.value.success
  /\ Existing(store) # {}

\* C9: the stored userId of a record never changes while the record exists.
C9_OwnerNeverChanges ==
  [][\A id \in DocIds :
       (store[id] # NoDoc /\ store'[id] # NoDoc) =>
         store'[id].userId = store[id].userId]_vars

\* C10: createdAt is written when the record is created, from the store's
\* write time, and no later step changes it.
C10_CreatedAtSetOnce ==
  [][\A id \in DocIds :
       /\ (store[id] = NoDoc /\ store'[id] # NoDoc) =>
            Get(store'[id], "createdAt") = Ts(NowMs(clock))
       /\ (store[id] # NoDoc /\ store'[id] # NoDoc) =>
            Get(store'[id], "createdAt") = Get(store[id], "createdAt")]_vars
C10_Witness ==
  /\ last.op = "update"
  /\ Succeeded
  /\ Has(last.form, "createdAt")
  /\ store[last.form.id].createdAt # Str(last.form.createdAt)
  /\ store[last.form.id].updatedAt.ms > store[last.form.id].createdAt.ms

\* C11: for a record created at an earlier time and then successfully
\* updated, the record updateCalendarEvent returns has the createdAt the
\* record was created with and an updatedAt strictly later than it.
C11_UpdateReturnsCreationTime ==
  (/\ last.op = "update"
   /\ Succeeded
   /\ store[last.form.id] # NoDoc
   /\ store[last.form.id].createdAt.ms < store[last.form.id].updatedAt.ms) =>
    /\ last.res.value.event.createdAt
         = TimestampToDate(store[last.form.id].createdAt)
    /\ last.res.value.event.updatedAt.ms > last.res.value.event.createdAt.ms

\* C12 as stated: every successful createCalendarEvent returns a record
\* whose id is the non-empty id the store assigned to the new document and
\* whose createdAt equals its updatedAt.
C12_CreatedEqualsUpdated ==
  (last.op = "create" /\ Succeeded) =>
    /\ last.res.value.event.id # ""
    /\ last.res.value.event.id \in assigned
    /\ last.res.value.event.createdAt = last.res.value.event.updatedAt

\* C12 (amended): every successful createCalendarEvent returns a record
\* whose id is the non-empty id the store assigned to the document it has
\* just written, and whose createdAt and updatedAt are two consecutive
\* readings of the server action's clock: updatedAt is createdAt or later by
\* the time that passed between the two readings.
C12_CreatedNearUpdated ==
  [][(last'.op = "create" /\ last' # last /\ ~last'.res.threw
        /\ last'.res.value.success) =>
       LET event == last'.res.value.event
       IN /\ event.id # ""
          /\ store[event.id] = NoDoc
          /\ store'[event.id] # NoDoc
          /\ \A id \in DocIds \ {event.id} : store'[id] = store[id]
          /\ event.createdAt = ValidDate(NowMs(clock))
          /\ event.updatedAt.valid
          /\ event.updatedAt.ms - event.createdAt.ms \in ClockLags]_vars
C12_Witness ==
  /\ last.op = "create"
  /\ Succeeded
  /\ store[last.res.value.event.id] # NoDoc
  /\ last.res.value.event.updatedAt.ms > last.res.value.event.createdAt.ms

\* the id of the document the last successful create or update wrote
WrittenId ==
  IF last.op = "create" THEN last.res.value.event.id ELSE last.form.id
\* the record read back: the stored document through the normalizer
ReadBack(id) == convertTimestampsToDates(store[id], id, NowMs(clock))

\* C13: after a create or update succeeds, with no later write to the id,
\* the record read back has the title, eventType, isFullDay and recipients
\* that were submitted and startDate/endDate equal to the submitted instants
\* to the millisecond.
C13_RoundTrip ==
  (IsWrite /\ Succeeded /\ store[WrittenId] # NoDoc) =>
    /\ ReadBack(WrittenId) \notin {Thrown, NoEvent}
    /\ ReadBack(WrittenId).title = last.form.title
    /\ ReadBack(WrittenId).eventType = last.form.eventType
    /\ ReadBack(WrittenId).isFullDay = (last.form.isFullDay = "true")
    /\ ReadBack(WrittenId).recipients = JSONParse(last.form.recipients).value
    /\ ReadBack(WrittenId).startDate = NewDateFromString(last.form.startDate)
    /\ ReadBack(WrittenId).endDate = NewDateFromString(last.form.endDate)
C13_Witness ==
  /\ last.op = "update"
  /\ Succeeded
  /\ store[WrittenId] # NoDoc
  /\ last.form.isFullDay = "false"
  /\ ReadBack(WrittenId).isFullDay = FALSE
  /\ ReadBack(WrittenId).endDate = ValidDate(2000)
  /\ ReadBack(WrittenId).updatedAt.ms > ReadBack(WrittenId).createdAt.ms

\* C16: createCalendarEvent, updateCalendarEvent and deleteCalendarEvent
\* never raise: for every input and every store failure the call returns a
\* value with a success flag and a message, and success is false whenever
\* the store write failed.
C16_WritesNeverRaise ==
  last.op \in {"create", "update", "delete"} =>
    /\ ~last.res.threw
    /\ {"success", "message"} \subseteq DOMAIN last.res.value
    /\ last.res.value.success \in BOOLEAN
    /\ last.outcome \notin {"ok", "none"} => ~last.res.value.success
    /\ (last.op = "update" /\ last.outcome = "ok" /\ ~last.existed) =>
         ~last.res.value.success
C16_Witness ==
  /\ last.op = "update"
  /\ last.existed
  /\ last.outcome = "permission-denied"
  /\ last.res = Returns([success |-> FALSE,
                         message |-> "Failed to update event. Please try again."])

\* the fields of a submission that break a validation rule: an empty or
\* missing title, an eventType outside the enumeration, a startDate or
\* endDate that does not parse, recipients that cannot be decoded or are not
\* a non-empty list of strings, a missing userId
RuleViolations(formData) ==
  {k \in BaseKeys :
     CASE k = "title" -> ~Has(formData, k) \/ formData[k] = ""
       [] k = "eventType" -> ~Has(formData, k) \/ formData[k] \notin EVENT_TYPES
       [] k = "startDate" -> ~NewDateFromField(formData, k).valid
       [] k = "endDate" -> ~NewDateFromField(formData, k).valid
       [] k = "recipients" ->
            \/ ~Has(formData, k)
            \/ JSONParse(formData[k]).threw
            \/ JSONParse(formData[k]).value.t # "array"
            \/ JSONParse(formData[k]).value.elems = <<>>
       [] k = "userId" -> ~Has(formData, k)
       [] OTHER -> FALSE}

\* C17: a create or update that breaks a validation rule returns
\* success=false with a field-error map that has an entry for each offending
\* field, and writes nothing.
C17_ViolationYieldsFieldError ==
  [][(last'.op \in {"create", "update"} /\ RuleViolations(last'.form) # {}) =>
       /\ ~last'.res.threw
       /\ ~last'.res.value.success
       /\ Has(last'.res.value, "errors")
       /\ RuleViolations(last'.form) \subseteq last'.res.value.errors
       /\ store' = store]_vars

\* the ids of the lists in the in-memory array
RegistryIds == {mailingLists[i].id : i \in 1..Len(mailingLists)}
\* the list ids a submission names, when its recipients decode to a list
NamedLists(formData) ==
  IF Has(formData, "recipients") /\ ~JSONParse(formData.recipients).threw
       /\ JSONParse(formData.recipients).value.t = "array"
  THEN {JSONParse(formData.recipients).value.elems[i] :
          i \in 1..Len(JSONParse(formData.recipients).value.elems)}
  ELSE {}

\* C18: a create or update that names an id of no list in the registry is
\* rejected, and the recipients of every stored record are ids of lists in
\* the registry.
C18_RecipientsInRegistry ==
  /\ (IsWrite /\ ~(NamedLists(last.form) \subseteq RegistryIds)) =>
       /\ ~last.res.threw
       /\ ~last.res.value.success
  /\ \A id \in Existing(store) :
       \A i \in 1..Len(store[id].recipients.elems) :
         store[id].recipients.elems[i] \in RegistryIds

\* C19: no stored record has an empty userId.
C19_UserIdNeverEmpty ==
  \A id \in Existing(store) :
    /\ Has(store[id], "userId")
    /\ store[id].userId.t = "string"
    /\ store[id].userId.v # ""

RECURSIVE Flatten(_)
Flatten(seqs) == IF seqs = <<>> THEN <<>> ELSE Head(seqs) \o Flatten(Tail(seqs))
\* the addresses of the lists of the registry that a record names
ResolvedAddresses(recipients) ==
  LET named == SelectSeq(mailingLists,
                         LAMBDA l : \E i \in 1..Len(recipients.elems) :
                                      recipients.elems[i] = l.id)
  IN {Flatten([i \in 1..Len(named) |-> named[i].emails])[j] :
        j \in 1..Len(Flatten([i \in 1..Len(named) |-> named[i].emails]))}

\* C20: a successful create or update triggers the notification exactly
\* once, with the addresses its recipients resolve to in the registry, and a
\* failed one triggers none.
C20_NotifiedOnceOnSuccess ==
  IsWrite =>
    IF Succeeded
    THEN /\ Len(last.notified) = 1
         /\ last.notified[1]
              = ResolvedAddresses(last.res.value.event.recipients)
    ELSE last.notified = <<>>

\* the syntactically valid addresses of each newListEmails value of the
\* model, trimmed, in their input order
SurvivingAddresses(emails) ==
  IF emails.t # "string" THEN <<>>
  ELSE CASE emails.v = "a@x.com" -> <<"a@x.com">>
         [] emails.v = "a@x.com, bad, b@x.com" -> <<"a@x.com", "b@x.com">>
         [] emails.v = "b@x.com,a@x.com" -> <<"b@x.com", "a@x.com">>
         [] OTHER -> <<>>
\* the step is a call of saveMailingLists
SaveStep ==
  /\ last'.op = "save"
  /\ last' # last \/ mailingLists' # mailingLists
\* the call added nothing
AddedNothing == mailingLists' = mailingLists
\* the call appended exactly one list, with the given name and addresses
AddedOne(name, emails) ==
  /\ Len(mailingLists') = Len(mailingLists) + 1
  /\ SubSeq(mailingLists', 1, Len(mailingLists)) = mailingLists
  /\ mailingLists'[Len(mailingLists')].name = name
  /\ mailingLists'[Len(mailingLists')].emails = emails

\* C14 as stated: saveMailingLists fails, adding nothing, if and only if no
\* valid address survives the filtering of newListEmails; when one survives
\* it succeeds and appends exactly one list whose emails are the valid
\* addresses, trimmed, in input order.
C14_FailsIffNoneSurvive ==
  [][SaveStep =>
       IF SurvivingAddresses(last'.newListEmails) = <<>>
       THEN ~last'.res.value.success /\ AddedNothing
       ELSE /\ last'.res.value.success
            /\ last'.newListName.t = "string"
            /\ AddedOne(last'.newListName.v,
                        SurvivingAddresses(last'.newListEmails))]_vars

\* C14 (amended): when newListName and newListEmails are both non-empty,
\* saveMailingLists fails, adding nothing, if and only if no valid address
\* survives, and otherwise succeeds and appends exactly one list with the
\* valid addresses, trimmed, in input order; when either is empty or missing
\* it succeeds and adds nothing.
C14_FailsIffNoneSurviveOfNonEmpty ==
  [][SaveStep =>
       /\ ~last'.res.threw
       /\ IF Truthy(last'.newListName) /\ Truthy(last'.newListEmails)
          THEN IF SurvivingAddresses(last'.newListEmails) = <<>>
               THEN ~last'.res.value.success /\ AddedNothing
               ELSE /\ last'.res.value.success
                    /\ AddedOne(last'.newListName.v,
                                SurvivingAddresses(last'.newListEmails))
          ELSE last'.res.value.success /\ AddedNothing]_vars
C14_Witness ==
  /\ last.op = "save"
  /\ last.newListEmails = Str("a@x.com, bad, b@x.com")
  /\ last.res.value.success
  /\ Len(mailingLists) = Len(MAILING_LISTS) + 1
  /\ mailingLists[Len(mailingLists)].emails = <<"a@x.com", "b@x.com">>

\* C15: the ids of the lists of the registry, initial and added, are
\* pairwise distinct in every reachable state.
C15_ListIdsDistinct ==
  \A i, j \in 1..Len(mailingLists) :
    i # j => mailingLists[i].id # mailingLists[j].id

\* C21: a deleteCalendarEvent the store accepts removes the document with
\* the id whatever userId is passed, the owner's or another, and touches no
\* other document.
C21_DeleteIgnoresUserId ==
  [][(/\ last'.op = "delete"
      /\ last'.outcome = "ok"
      /\ last'.id \in DocIds)
     => /\ ~last'.res.threw
        /\ last'.res.value.success
        /\ store'[last'.id] = NoDoc
        /\ \A id \in DocIds \ {last'.id} : store'[id] = store[id]]_vars
C21_Witness ==
  /\ last.op = "delete"
  /\ last.outcome = "ok"
  /\ last.existed
  /\ last.owner = Str("u1")
  /\ last.userId = "u2"
  /\ store[last.id] = NoDoc
  /\ Succeeded

\* the four date fields of a stored record
DateFields == {"startDate", "endDate", "createdAt", "updatedAt"}
\* the instant, or invalid, that the normalizer is specified to give
NormalizedAsSpecified(v) ==
  CASE v.t = "timestamp" -> ValidDate(v.ms)
    [] v.t = "string" ->
         IF v.v \in DateStrings THEN ValidDate(ParseTable[v.v]) ELSE InvalidDate
    [] v.t = "map" -> ValidDate(v.seconds * 1000 + (v.nanoseconds \div 1000000))
    [] OTHER -> InvalidDate

\* C22: convertField never raises, and gives a Timestamp its instant, a
\* string its parsed instant or invalid, a {seconds, nanoseconds} object the
\* instant seconds*1000 + nanoseconds/1e6 ms, and every other value invalid.
C22_NormalizerCases ==
  ListedOk =>
    \A id \in OwnedBy(store, last.userId) :
      \A k \in DateFields :
        /\ convertField(Get(store[id], k)) # Thrown
        /\ convertField(Get(store[id], k))
             = NormalizedAsSpecified(Get(store[id], k))

\* the record with the id in the list getUserEvents returned
ReturnedRecord(id) ==
  last.res.value[CHOOSE i \in 1..Len(last.res.value) : last.res.value[i].id = id]

\* C23: a record of the user whose startDate and endDate normalize, but
\* whose createdAt or updatedAt is missing or does not normalize, is still
\* returned, with the current instant in place of each such audit timestamp
\* and every other field as stored.
C23_AuditTimestampFallback ==
  ListedOk =>
    \A id \in OwnedBy(store, last.userId) :
      DatesValid(store[id]) =>
        /\ id \in ReturnedIds
        /\ \A k \in {"createdAt", "updatedAt"} :
             ReturnedRecord(id)[k] =
               IF IsInstant(Get(store[id], k))
               THEN convertField(Get(store[id], k))
               ELSE ValidDate(NowMs(clock))
        /\ \A k \in {"userId", "title", "eventType", "isFullDay", "recipients"} :
             ReturnedRecord(id)[k] = Get(store[id], k)
        /\ \A k \in {"startDate", "endDate"} :
             ReturnedRecord(id)[k] = convertField(Get(store[id], k))

\* the validation of the last write call failed (a delete has none)
ValidationFailed(call) ==
  CASE call.op = "create" -> Validate(createEventSchema, call.form, {}).threw
    [] call.op = "update" -> Validate(updateEventSchema, call.form, {"id"}).threw
    [] OTHER -> FALSE

\* C24: a write action goes to the store only after its validation
\* succeeded, invalidates the cached calendar overview only after the store
\* write committed, and invalidates nothing when it ends in failure.
C24_ValidatePersistReconcile ==
  [][last'.op \in {"create", "update", "delete"} =>
       /\ ValidationFailed(last') =>
            /\ last'.outcome = "none"
            /\ store' = store
       /\ last'.revalidated # {} =>
            /\ "/calendar-overview" \in last'.revalidated
            /\ last'.outcome = "ok"
            /\ ~ValidationFailed(last')
            /\ last'.op = "update" => last'.existed
       /\ (last'.res.threw \/ ~last'.res.value.success) =>
            last'.revalidated = {}]_vars
C24_Witness ==
  /\ last.op = "update"
  /\ ~ValidationFailed(last)
  /\ last.existed
  /\ last.outcome = "permission-denied"
  /\ last.revalidated = {}
  /\ ~last.res.value.success

\* the store write of the last write call committed: the store accepted it,
\* and for an update the document was there
WriteCommitted(call) ==
  /\ call.outcome = "ok"
  /\ call.op = "update" => call.existed

\* C26: a create, update or delete that returns success=false has left the
\* collection as it was, and success=true is returned exactly when the store
\* write committed.
C26_FailureLeavesStore ==
  [][last'.op \in {"create", "update", "delete"} =>
       /\ ~last'.res.threw
       /\ ~last'.res.value.success => store' = store
       /\ last'.res.value.success <=> WriteCommitted(last')]_vars
C26_Witness ==
  /\ last.op = "update"
  /\ Has(last.form, "id")
  /\ last.form.id \in Existing(store)
  /\ last.outcome = "permission-denied"
  /\ ~last.res.value.success
  /\ ReadBack(last.form.id).startDate # NewDateFromString(last.form.startDate)

\* C28: saveMailingLists never removes or changes a list, every list has at
\* least one address, and each call that succeeds with a non-empty name and
\* a surviving address makes the array one list longer, also when calls fall
\* in the same instant; nothing else changes the array.
C28_RegistryOnlyGrows ==
  [][/\ Len(mailingLists') >= Len(mailingLists)
     /\ SubSeq(mailingLists', 1, Len(mailingLists)) = mailingLists
     /\ \A i \in 1..Len(mailingLists') : mailingLists'[i].emails # <<>>
     /\ (/\ SaveStep
         /\ last'.res.value.success
         /\ Truthy(last'.newListName)
         /\ SurvivingAddresses(last'.newListEmails) # <<>>)
        => Len(mailingLists') = Len(mailingLists) + 1
     /\ mailingLists' # mailingLists =>
          /\ last'.op = "save"
          /\ last'.res.value.success]_vars
C28_Witness ==
  /\ last.op = "save"
  /\ last.res.value.success
  /\ Len(mailingLists) = Len(MAILING_LISTS) + 2
  /\ mailingLists[Len(mailingLists)].id = mailingLists[Len(mailingLists) - 1].id
  /\ SubSeq(mailingLists, 1, Len(MAILING_LISTS)) = MAILING_LISTS

\* C29: saveMailingLists with an empty or missing newListName, or an empty
\* or missing newListEmails, returns success=true and leaves the array of
\* lists as it was.
C29_EmptyFieldsAddNothing ==
  [][(/\ last'.op = "save"
      /\ \/ last'.newListName \in {Str(""), Null}
         \/ last'.newListEmails \in {Str(""), Null})
     => /\ last'.res = Returns([success |-> TRUE,
                                message |-> "Mailing list settings updated (in-memory)."])
        /\ mailingLists' = mailingLists]_vars
C29_Witness ==
  /\ last.op = "save"
  /\ last.newListName = Str("")
  /\ last.newListEmails = Str("a@x.com, bad, b@x.com")
  /\ last.res.value.success
  /\ mailingLists = MAILING_LISTS

\* the mutable fields of a stored record
MutableFields == {"title", "eventType", "startDate", "endDate", "isFullDay",
                  "recipients"}
\* the mutable fields as a submission gives them, in stored form
SubmittedFields(formData) ==
  [title |-> formData.title,
   eventType |-> formData.eventType,
   startDate |-> Ts(ParseTable[formData.startDate]),
   endDate |-> Ts(ParseTable[formData.endDate]),
   isFullDay |-> (formData.isFullDay = "true"),
   recipients |-> JSONParse(formData.recipients).value]
\* the calls of the given kind, as indices of calls
CallsOf(kind) == {i \in 1..Len(calls) : calls[i].kind = kind}
Answered(i) == calls[i].res # Pending

\* C25: when updates of the same id are in flight together and succeed,
\* each store write replaces all the mutable fields at once, so the stored
\* title, eventType, startDate, endDate, isFullDay and recipients are those
\* of one payload, the one whose write committed last.
C25_LastWriteWins ==
  [][(/\ last'.op = "update"
      /\ last'.res.value.success)
     => Pick(store'[last'.form.id], MutableFields) = SubmittedFields(last'.form)]_vars
C25_Witness ==
  \E i, j \in CallsOf("update") :
    /\ i < j
    /\ calls[i].form # calls[j].form
    /\ Answered(i) /\ calls[i].res.value.success
    /\ Answered(j) /\ calls[j].res.value.success
    /\ last.op = "update"
    /\ last.form = calls[i].form
    /\ Pick(store[last.form.id], MutableFields) = SubmittedFields(calls[i].form)

\* C27: a record that was deleted never comes back: no step stores a
\* document under an id whose document was deleted, and an update of a
\* deleted id that is served after the delete returns success = false and
\* leaves the id without a document.
C27_DeletedNeverResurrected ==
  [][/\ \A id \in DocIds :
          (id \in assigned /\ store[id] = NoDoc) => store'[id] = NoDoc
     /\ (/\ last'.op = "update"
         /\ last'.form.id \in assigned
         /\ store[last'.form.id] = NoDoc)
        => ~last'.res.value.success]_vars
C27_Witness ==
  \E i \in CallsOf("update"), j \in CallsOf("delete") :
    /\ i < j
    /\ calls[i].form.id = calls[j].id
    /\ Answered(j) /\ calls[j].res.value.success
    /\ Answered(i) /\ ~calls[i].res.value.success
    /\ last.op = "update"
    /\ last.outcome = "ok"
    /\ store[calls[j].id] = NoDoc

\* the fetch that was started last
LatestFetch == CHOOSE i \in CallsOf("fetch") : \A j \in CallsOf("fetch") : j <= i
AllFetchesCompleted ==
  /\ CallsOf("fetch") # {}
  /\ \A i \in CallsOf("fetch") : calls[i].state = "done"

C30_LoadingOffWhenIdle == AllFetchesCompleted => ~view.isLoading

====
